---- MODULE Spec2Model ----
(***************************************************************************)
(* A model of two parts of cxx-flow / proj-flow:                            *)
(*   - src/src/proj_flow/log/release.py : _bump_version and add_release     *)
(*   - src/cxx_flow/flow/layer.py       : FileInfo, LayerInfo and           *)
(*                                        gather_package_layers             *)
(* Text is modelled as a sequence of one-character strings, so that         *)
(* splitting, parsing, formatting and comparing are computed, not assumed.  *)
(***************************************************************************)
EXTENDS Integers, Sequences, FiniteSets, TLC

VARIABLES
    \* ---- _bump_version exercised on its own
    bver,        \* the version string handed to _bump_version
    blevel,      \* the level handed to _bump_version
    bresult,     \* what the call produced (None before the call)
    \* ---- add_release
    rin,         \* the inputs and collaborator answers of one add_release run
    rpc,         \* "start", or how the run ended
    calls,       \* the collaborator calls made so far, in order
    added,       \* the arguments of git.add_files
    commit_msg,  \* the first line of the message given to git.commit
    tag_msg,     \* the message given to git.annotated_tag
    curr_tag,    \* setup.curr_tag
    tagged,      \* the name given to git.annotated_tag
    \* ---- layers
    context,     \* the settings context
    fs,          \* the layers directory: the sub-directories os.walk reports
    lpc,         \* "start", "gathered", "UnboundLocalError"
    scanned,     \* per layer directory: from_fs's local `files`, sorted
    built,       \* per layer directory: the LayerInfo from_fs returned
    layers,      \* what gather_package_layers returned
    ran,         \* how many of the returned layers have been run
    output,      \* the destinations LayerInfo.run handed to FileInfo.run, in order
    \* ---- _fixup_context
    fin,         \* the project filter and the ctx.defaults / ctx.hidden pools
    fpc,         \* "hidden", "fixup", "nest", "done"
    fi,          \* iterations of the current loop already made
    settings,    \* the settings map, in insertion order
    ftrace,      \* the settings handled so far: <<loop, json_key>>
    fresult      \* the nested context _fixup_context returns

bumpVars == <<bver, blevel, bresult>>
releaseVars == <<rin, rpc, calls, added, commit_msg, tag_msg, curr_tag, tagged>>
layerVars == <<context, fs, lpc, scanned, built, layers, ran, output>>
fixupVars == <<fin, fpc, fi, settings, ftrace, fresult>>
vars == <<bumpVars, releaseVars, layerVars, fixupVars>>

\* Python's None, where a str is expected (text is a tuple of characters, so
\* this is no text), where a Level is expected, and where a path is expected
None == <<"None">>

NoLevel == 0 - 1

NoPath == "<None>"

NoKey == "<None>"

(***************************************************************************)
(* Text                                                                    *)
(***************************************************************************)

\* The characters the model uses, in code-point order (Python compares str
\* by code point).
CodePoints ==
    <<"-", ".", "/", "0", "1", "2", "3", "4", "5", "6", "7", "8", "9",
      "A", "B", "N", "_", "a", "b", "c", "d", "e", "f", "h", "m", "n", "o",
      "p", "r", "s", "t", "u", "v", "x", "y", "{", "}">>

Ord(c) == CHOOSE i \in 1..Len(CodePoints) : CodePoints[i] = c

DigitChars == <<"0", "1", "2", "3", "4", "5", "6", "7", "8", "9">>

IsDigit(c) == \E i \in 1..10 : DigitChars[i] = c

DigitVal(c) == (CHOOSE i \in 1..10 : DigitChars[i] = c) - 1

\* s < t for two str values
RECURSIVE StrLess(_, _)
StrLess(s, t) ==
    IF t = <<>> THEN FALSE
    ELSE IF s = <<>> THEN TRUE
    ELSE IF s[1] # t[1] THEN Ord(s[1]) < Ord(t[1])
    ELSE StrLess(Tail(s), Tail(t))

\* position of the first occurrence of character c in s, 0 when absent
IndexOf(s, c) ==
    IF \E i \in 1..Len(s) : s[i] = c
    THEN CHOOSE i \in 1..Len(s) : s[i] = c /\ \A j \in 1..(i - 1) : s[j] # c
    ELSE 0

\* str.split(c, 1)
SplitOnce(s, c) ==
    LET i == IndexOf(s, c)
    IN  IF i = 0 THEN <<s>>
        ELSE <<SubSeq(s, 1, i - 1), SubSeq(s, i + 1, Len(s))>>

\* str.split(c)
RECURSIVE Split(_, _)
Split(s, c) ==
    LET i == IndexOf(s, c)
    IN  IF i = 0 THEN <<s>>
        ELSE <<SubSeq(s, 1, i - 1)>> \o Split(SubSeq(s, i + 1, Len(s)), c)

\* c.join(parts)
RECURSIVE Join(_, _)
Join(parts, c) ==
    IF parts = <<>> THEN <<>>
    ELSE IF Len(parts) = 1 THEN parts[1]
    ELSE parts[1] \o <<c>> \o Join(Tail(parts), c)

\* int(s) is defined (over the model's characters: a non-empty run of digits)
IsInt(s) == Len(s) > 0 /\ \A i \in 1..Len(s) : IsDigit(s[i])

\* int(s)
RECURSIVE ParseInt(_)
ParseInt(s) ==
    IF s = <<>> THEN 0
    ELSE 10 * ParseInt(SubSeq(s, 1, Len(s) - 1)) + DigitVal(s[Len(s)])

\* str(n), n >= 0
RECURSIVE StrOfInt(_)
StrOfInt(n) ==
    IF n < 10 THEN <<DigitChars[n + 1]>>
    ELSE StrOfInt(n \div 10) \o <<DigitChars[(n % 10) + 1]>>

(***************************************************************************)
(* commit.Level and _bump_version                                          *)
(***************************************************************************)

\* commit.Level is used only through .value.  release.py spells the
\* arithmetic out: "This turns [1, 2, 3] through 4 - x into [3, 2, 1]", that
\* is BREAKING.value is 4 and the values 1, 2 and 3 lie between BENIGN and
\* BREAKING.
BENIGN == 0

BREAKING == 4

\* "BREAKING -> index 0 = major, FEATURE -> index 1 = minor"
FEATURE == BREAKING - 1

Levels == BENIGN..BREAKING

Ok(v) == [err |-> "none", value |-> v]

Raise(e) == [err |-> e, value |-> <<>>]

\* semver[lvl] += 1, then every component to its right set to 0
BumpAt(semver, lvl) ==
    [i \in 1..Len(semver) |->
        IF i - 1 < lvl THEN semver[i]
        ELSE IF i - 1 = lvl THEN semver[i] + 1
        ELSE 0]

\* while len(semver) < 3: semver.append(0);  semver = semver[:3]
PadTruncate(semver) ==
    [i \in 1..3 |-> IF i <= Len(semver) THEN semver[i] ELSE 0]

_bump_version(ver, level) ==
    LET split == SplitOnce(ver, "-")
        stability == IF Len(split) = 2 THEN <<"-">> \o split[2] ELSE <<>>
        parts == Split(split[1], ".")
    IN  IF \E i \in 1..Len(parts) : ~IsInt(parts[i])
        THEN Raise("ValueError")
        ELSE
            LET semver == PadTruncate([i \in 1..Len(parts) |-> ParseInt(parts[i])])
                lvl == BREAKING - level
            IN  IF level > BENIGN
                THEN IF lvl >= Len(semver)
                     THEN Raise("IndexError")
                     ELSE Ok(Join([i \in 1..3 |-> StrOfInt(BumpAt(semver, lvl)[i])], ".")
                             \o stability)
                ELSE Ok(Join([i \in 1..3 |-> StrOfInt(semver[i])], ".") \o stability)

(***************************************************************************)
(* add_release                                                             *)
(***************************************************************************)

\* paths are opaque here: generator.filename
ChangelogPath == "CHANGELOG.rst"

\* bool(level): commit.Level is a plain Enum (it is used through .value), and
\* a member of a plain Enum is never falsy
LevelIsTruthy(level) == level \in Levels

\* a slip: the operands the other way round, log_level or forced_level
EffectiveLevelLogFirst(forced_level, log_level) ==
    IF log_level # NoLevel /\ LevelIsTruthy(log_level) THEN log_level ELSE forced_level

\* forced_level or log_level
EffectiveLevel(forced_level, log_level) ==
    IF forced_level # NoLevel /\ LevelIsTruthy(forced_level)
    THEN forced_level
    ELSE log_level

\* f"v{next_version}"
TagOf(next_version) == <<"v">> \o next_version


\* a slip: only the most recent tag (prev_tag) is compared
TagExistsLastOnly(tag, tags) == Len(tags) > 0 /\ tags[Len(tags)] = tag

\* setup.curr_tag in tags
TagExists(tag, tags) == \E i \in 1..Len(tags) : tags[i] = tag

\* rt.fatal(...) reports the message and terminates the process: nothing
\* after it runs.
RtFatalReturns == FALSE

\* what one updater's on_version_change contributes to files_to_commit:
\* a str is appended, anything else is extended with
Contribution(modified) ==
    IF modified.is_str THEN <<modified.paths[1]>> ELSE modified.paths

RECURSIVE UpdaterFiles(_)
UpdaterFiles(updaters) ==
    IF updaters = <<>> THEN <<>>
    ELSE Contribution(updaters[1]) \o UpdaterFiles(Tail(updaters))

\* if version_path: files_to_commit.append(version_path)
VersionFile(version_path) ==
    IF version_path # NoPath /\ version_path # "" THEN <<version_path>> ELSE <<>>


\* a slip: the dry run predicts the updaters' files as well
FilesToCommitAlways(in) ==
    <<ChangelogPath>> \o VersionFile(in.version_path) \o UpdaterFiles(in.updaters)

\* files_to_commit, as built by both branches of "if not rt.dry_run"
FilesToCommit(in) ==
    IF ~in.dry_run
    THEN <<ChangelogPath>> \o VersionFile(in.version_path) \o UpdaterFiles(in.updaters)
    ELSE <<ChangelogPath>> \o VersionFile(in.version_path)

\* the collaborator calls of the same block, in order
ArtifactCalls(in) ==
    IF ~in.dry_run
    THEN <<"generator.update_changelog", "suite.set_version",
           "suite.get_version_file_path">>
         \o [i \in 1..Len(in.updaters) |-> "updater.on_version_change"]
    ELSE <<"suite.get_version_file_path">>


\* a slip: the tag is made before the commit it should point at
CommitCallsTagFirst == <<"git.add_files", "git.annotated_tag", "git.commit">>

\* git.add_files, git.commit, git.annotated_tag: unconditional
CommitCalls == <<"git.add_files", "git.commit", "git.annotated_tag">>

\* if hosting.is_active: hosting.add_release(...), and the draft, if the
\* answer has one, is announced
HostingCalls(in) ==
    IF in.hosting_active
    THEN <<"hosting.add_release">>
         \o (IF in.draft_url # NoPath /\ in.draft_url # "" THEN <<"rt.message">> ELSE <<>>)
    ELSE <<>>

\* commit_message = f"release {next_version}"
CommitMessage(next_version) ==
    <<"r", "e", "l", "e", "a", "s", "e", " ">> \o next_version

\* the first line of f"chore: {commit_message}{fmt.format_commit_message(changelog)}"
ChoreLine(next_version) ==
    <<"c", "h", "o", "r", "e", ":", " ">> \o CommitMessage(next_version)

Outcome(pc, cs, files, msg, tagmsg, tag, tagname) ==
    [pc |-> pc, calls |-> cs, added |-> files, commit_msg |-> msg,
     tag_msg |-> tagmsg, curr_tag |-> tag, tagged |-> tagname]

\* the body of add_release after the tag check
Release(in, cs, next_version) ==
    Outcome("done",
            cs \o ArtifactCalls(in) \o CommitCalls \o HostingCalls(in),
            FilesToCommit(in), ChoreLine(next_version), CommitMessage(next_version),
            TagOf(next_version), TagOf(next_version))

add_release(in) ==
    IF in.version = None
    THEN Outcome("NoProjectError", <<>>, None, None, None, None, None)
    ELSE
        LET cs == <<"git.tag_list", "git.get_log">>
            bumped == _bump_version(in.version,
                                    EffectiveLevel(in.forced_level, in.log_level))
        IN  IF bumped.err # "none"
            THEN Outcome(bumped.err, cs, None, None, None, None, None)
            ELSE
                LET next_version == bumped.value
                    tag == TagOf(next_version)
                IN  IF next_version = in.version
                    THEN Outcome("VersionNotAdvancing", cs, None, None, None, tag, None)
                    ELSE IF TagExists(tag, in.tags)
                    THEN IF RtFatalReturns
                         THEN Release(in, cs \o <<"rt.fatal">>, next_version)
                         ELSE Outcome("fatal", cs \o <<"rt.fatal">>, None, None, None, tag, None)
                    ELSE Release(in, cs, next_version)

\* ---- bounds and input sets of the add_release runs
MaxTags == 2

MaxUpdaters == 2

\* project.version as text; None when no project suite matches
ReleaseVersions ==
    { None,
      <<"1", ".", "0", ".", "0">>,
      <<"1", ".", "2">>,
      <<"1", ".", "9", ".", "9", "-", "r", "c">> }

TagPool == { <<"v", "1", ".", "0", ".", "0">>, <<"v", "2", ".", "0", ".", "0">> }

UpdaterPool ==
    { [is_str |-> TRUE, paths |-> <<"package.json">>],
      [is_str |-> FALSE, paths |-> <<"conanfile.py", "README.md">>] }

SeqsUpTo(S, n) == UNION { [1..k -> S] : k \in 0..n }

\* the draft_url of the answer of hosting.add_release
DraftUrls == {NoPath, "https://h/draft"}

\* hosting.add_release is not asked when the hosting is not active, and
\* nothing is asked when no project is found
ReleaseInputs ==
    { in \in [ version : ReleaseVersions,
               tags : SeqsUpTo(TagPool, MaxTags),
               log_level : Levels,
               forced_level : Levels \cup {NoLevel},
               dry_run : BOOLEAN,
               hosting_active : BOOLEAN,
               draft_url : DraftUrls,
               version_path : {NoPath, "", "CMakeLists.txt"},
               updaters : SeqsUpTo(UpdaterPool, MaxUpdaters) ] :
        /\ in.hosting_active \/ in.draft_url = NoPath
        /\ in.version = None =>
              (in.tags = <<>> /\ in.updaters = <<>> /\ in.draft_url = NoPath) }

ReleaseIdle ==
    /\ rin = <<>> /\ rpc = "idle" /\ calls = <<>> /\ added = None
    /\ commit_msg = None /\ tag_msg = None /\ curr_tag = None /\ tagged = None

ReleaseInit ==
    /\ rin \in ReleaseInputs
    /\ rpc = "start" /\ calls = <<>> /\ added = None
    /\ commit_msg = None /\ tag_msg = None /\ curr_tag = None /\ tagged = None

AddRelease ==
    /\ rpc = "start"
    /\ LET r == add_release(rin)
       IN  /\ rpc' = r.pc
           /\ calls' = r.calls
           /\ added' = r.added
           /\ commit_msg' = r.commit_msg
           /\ tag_msg' = r.tag_msg
           /\ curr_tag' = r.curr_tag
           /\ tagged' = r.tagged
    /\ UNCHANGED <<rin, bumpVars, layerVars, fixupVars>>

(***************************************************************************)
(* layer.py: FileInfo, LayerInfo, gather_package_layers                    *)
(***************************************************************************)

\* os.sep (POSIX)
OsSep == "/"

\* str.replace(a, b) for single characters
Replace(s, a, b) == [i \in 1..Len(s) |-> IF s[i] = a THEN b ELSE s[i]]

MustacheExt == <<".", "m", "u", "s", "t", "a", "c", "h", "e">>

\* position of the last occurrence of character c in s, 0 when absent
LastIndexOf(s, c) ==
    IF \E i \in 1..Len(s) : s[i] = c
    THEN CHOOSE i \in 1..Len(s) : s[i] = c /\ \A j \in (i + 1)..Len(s) : s[j] # c
    ELSE 0

\* os.path.splitext(p) as <<root, ext>>: the extension starts at the last dot
\* of the last path component, unless only dots precede it in that component
splitext(path) ==
    LET sepIndex == LastIndexOf(path, OsSep)
        dotIndex == LastIndexOf(path, ".")
    IN  IF dotIndex > sepIndex
           /\ \E k \in (sepIndex + 1)..(dotIndex - 1) : path[k] # "."
        THEN <<SubSeq(path, 1, dotIndex - 1), SubSeq(path, dotIndex, Len(path))>>
        ELSE <<path, <<>>>>

\* the tags a path template may hold, and the key each names
TagKey(token) ==
    CASE token = "{{N}}" -> "N"
      [] OTHER -> NoKey

\* the value of a key, as text ("" when the key is missing)
RenderKey(ctx, key) == IF key \in DOMAIN ctx THEN ctx[key] ELSE <<>>

\* chevron.render(template, context) of a path template: a sequence of
\* characters and {{key}} tags
RECURSIVE chevron_render(_, _)
chevron_render(template, ctx) ==
    IF template = <<>> THEN <<>>
    ELSE (IF TagKey(template[1]) # NoKey
          THEN RenderKey(ctx, TagKey(template[1]))
          ELSE <<template[1]>>)
         \o chevron_render(Tail(template), ctx)

\* a section's truthiness: a missing key hides the section
Truthy(ctx, key) == key \in DOMAIN ctx /\ ctx[key] = TRUE

EmptyEntry == [key |-> <<>>, path |-> None, when |-> NoKey]

\* filelist.get(key, {})
FilelistGet(filelist, key) ==
    IF \E e \in filelist : e.key = key
    THEN CHOOSE e \in filelist : e.key = key
    ELSE EmptyEntry

\* a slip: the template marker is stripped even when a path is given
FileInfo_from_json_strip_first(src, filelist, ctx) ==
    LET split == splitext(src)
        is_mustache == split[2] = MustacheExt
        json_file == FilelistGet(filelist, Replace(src, OsSep, "/"))
        dst == IF is_mustache THEN split[1]
               ELSE IF json_file.path # None
               THEN Replace(chevron_render(json_file.path, ctx), "/", OsSep)
               ELSE src
    IN  [src |-> src, dst |-> dst, is_mustache |-> is_mustache,
         when |-> json_file.when]

\* FileInfo.from_json
FileInfo_from_json(src, filelist, ctx) ==
    LET split == splitext(src)
        basename == split[1]
        is_mustache == split[2] = MustacheExt
        key == Replace(src, OsSep, "/")
        json_file == FilelistGet(filelist, key)
        path == json_file.path
        when == json_file.when
        dst == IF path # None
               THEN Replace(chevron_render(path, ctx), "/", OsSep)
               ELSE IF is_mustache THEN basename ELSE src
    IN  [src |-> src, dst |-> dst, is_mustache |-> is_mustache, when |-> when]

\* the lines of a conditional template: a section tag standing alone on its
\* line, or a destination
OpenLine(key) == [kind |-> "open", key |-> key, text |-> <<>>]

CloseLine(key) == [kind |-> "close", key |-> key, text |-> <<>>]

TextLine(text) == [kind |-> "text", key |-> NoKey, text |-> text]

\* FileInfo.template
FileInfo_template(file) ==
    IF file.when # NoKey /\ file.when # ""
    THEN <<OpenLine(file.when), TextLine(file.dst), CloseLine(file.when)>>
    ELSE <<TextLine(file.dst)>>

RECURSIVE Concat(_)
Concat(seqs) == IF seqs = <<>> THEN <<>> ELSE seqs[1] \o Concat(Tail(seqs))

\* LayerInfo.template
LayerInfo_template(when, files) ==
    LET body == Concat([i \in 1..Len(files) |-> FileInfo_template(files[i])])
    IN  IF when # NoKey /\ when # ""
        THEN <<OpenLine(when)>> \o body \o <<CloseLine(when)>>
        ELSE body

\* chevron.render of a conditional template, as the lines it emits: a text
\* line is emitted when every section around it is truthy; a tag standing
\* alone on its line emits nothing.  `stack` holds the sections entered.
RECURSIVE RenderLines(_, _, _)
RenderLines(lines, stack, ctx) ==
    IF lines = <<>> THEN <<>>
    ELSE LET line == lines[1]
             shown == \A i \in 1..Len(stack) : stack[i]
         IN  CASE line.kind = "open" ->
                    RenderLines(Tail(lines),
                                <<shown /\ Truthy(ctx, line.key)>> \o stack, ctx)
               [] line.kind = "close" ->
                    RenderLines(Tail(lines), Tail(stack), ctx)
               [] OTHER ->
                    (IF shown THEN <<line.text>> ELSE <<>>)
                    \o RenderLines(Tail(lines), stack, ctx)

\* set(filter(lambda path: path != "", rendered.split("\n")))
AllowedFiles(when, files, ctx) ==
    LET rendered == RenderLines(LayerInfo_template(when, files), <<>>, ctx)
    IN  {rendered[i] : i \in 1..Len(rendered)} \ {<<>>}

\* list.sort is stable: x goes after every element that is not greater
RECURSIVE InsertByDst(_, _)
InsertByDst(sorted, x) ==
    IF sorted = <<>> THEN <<x>>
    ELSE IF StrLess(x.dst, sorted[1].dst) THEN <<x>> \o sorted
    ELSE <<sorted[1]>> \o InsertByDst(Tail(sorted), x)

RECURSIVE SortFrom(_, _)
SortFrom(sorted, rest) ==
    IF rest = <<>> THEN sorted
    ELSE SortFrom(InsertByDst(sorted, rest[1]), Tail(rest))

\* a slip: the list is left in the order os.walk reported
Unsorted(files) == files

\* files.sort(key=lambda info: info.dst)
SortByDst(files) == SortFrom(<<>>, files)

Pycache == <<"_", "_", "p", "y", "c", "a", "c", "h", "e", "_", "_">>

\* the file lies in or below a directory called __pycache__
InPycache(src) ==
    LET path == <<OsSep>> \o src
        n == Len(Pycache)
    IN  \E i \in 1..Len(path) :
            /\ i + n + 1 <= Len(path)
            /\ path[i] = OsSep
            /\ SubSeq(path, i + 1, i + n) = Pycache
            /\ path[i + n + 1] = OsSep

\* the os.walk loop of from_fs: every file of the tree, as a path relative to
\* the layer directory; the walk does not descend into __pycache__.  The
\* filter on ".pyc", ".pyo", ".pyd" compares the pair splitext returns with a
\* str and so removes nothing.
WalkSources(dir) == SelectSeq(dir.sources, LAMBDA src : ~InPycache(src))

\* from_fs's local `files`: one FileInfo per source, sorted by dst
ScannedFiles(dir, ctx) ==
    SortByDst([i \in 1..Len(WalkSources(dir)) |->
                  FileInfo_from_json(WalkSources(dir)[i], dir.filelist, ctx)])

\* list(filter(lambda file: file.dst in allowed_files, files))
FilterAllowed(files, allowed) ==
    SelectSeq(files, LAMBDA file : file.dst \in allowed)

\* LayerInfo.from_fs
LayerInfo_from_fs(dir, ctx) ==
    LET files == ScannedFiles(dir, ctx)
        allowed_files == AllowedFiles(dir.when, files, ctx)
    IN  [root |-> dir.name, when |-> dir.when,
         files |-> FilterAllowed(files, allowed_files)]

\* a slip: empty layers are returned as well
KeepAll(ls) == ls

\* list(filter(lambda layer: len(layer.files) > 0, layers))
KeepNonEmpty(ls) == SelectSeq(ls, LAMBDA layer : Len(layer.files) > 0)

\* the sub-directories that have a sibling "<dirname>.json", in os.walk order
LayerDirs(dirs) == SelectSeq(dirs, LAMBDA dir : dir.has_json)

\* LayerInfo.run: FileInfo.run for each file of the layer, in list order
RunFiles(layer) == [i \in 1..Len(layer.files) |-> <<layer.root, layer.files[i].dst>>]

\* ---- bounds and input sets of the layer runs
MaxFiles == 3

MaxLayers == 2

MaxLayerFiles == 1

\* a file on disk with its entry of the descriptor's "filelist", if any
OnDisk(src, has_entry, path, when) ==
    [src |-> src, has_entry |-> has_entry, path |-> path, when |-> when]

FilePool ==
    { OnDisk(<<"a">> \o MustacheExt, FALSE, None, NoKey),
      OnDisk(<<"b">>, TRUE, None, "A"),
      OnDisk(<<"c">>, TRUE, <<"{{N}}">>, "B"),
      OnDisk(MustacheExt, FALSE, None, NoKey),
      OnDisk(<<"d", "/", "e">> \o MustacheExt, TRUE, None, "B"),
      OnDisk(<<"f">> \o MustacheExt, TRUE, <<"f", ".", "{{N}}">>, NoKey) }

\* files in and next to __pycache__ directories
CacheFile(src, has_entry, when) == OnDisk(src, has_entry, None, when)

\* trees with __pycache__ directories in them, in os.walk order
CacheTrees ==
    { <<CacheFile(<<"a">>, FALSE, NoKey), CacheFile(Pycache \o <<"/", "x">>, FALSE, NoKey)>>,
      <<CacheFile(Pycache \o <<"/", "x">>, TRUE, "A")>>,
      <<CacheFile(<<"a">>, FALSE, NoKey), CacheFile(<<"d", "/", "e">>, FALSE, NoKey),
        CacheFile(<<"d", "/">> \o Pycache \o <<"/", "y">>, FALSE, NoKey)>>,
      <<CacheFile(Pycache, TRUE, "B"), CacheFile(Pycache \o <<"/", "x">>, FALSE, NoKey)>> }

SmallPool ==
    { OnDisk(<<"a">> \o MustacheExt, FALSE, None, NoKey),
      OnDisk(<<"b">>, TRUE, None, "A") }

DistinctSeqs(S, n) ==
    { q \in SeqsUpTo(S, n) : \A i, j \in 1..Len(q) : i # j => q[i] # q[j] }

\* a layer directory: what the descriptor and the walk of the tree give
Dir(has_json, when, files) ==
    [name |-> "", has_json |-> has_json, when |-> when,
     sources |-> [i \in 1..Len(files) |-> files[i].src],
     filelist |-> { [key |-> Replace(files[i].src, OsSep, "/"),
                     path |-> files[i].path, when |-> files[i].when] :
                    i \in {k \in 1..Len(files) : files[k].has_entry} }]

DirNames == <<"base", "cmake", "conan", "github">>

Named(dirs) == [i \in 1..Len(dirs) |-> [dirs[i] EXCEPT !.name = DirNames[i]]]

RichDirs ==
    { Dir(TRUE, w, files) : w \in {NoKey, "A", "B"},
                            files \in DistinctSeqs(FilePool, MaxFiles) }

CacheDirs == { Dir(TRUE, w, files) : w \in {NoKey, "A"}, files \in CacheTrees }

SmallDirs ==
    { Dir(j, w, files) : j \in BOOLEAN, w \in {NoKey, "B"},
                         files \in DistinctSeqs(SmallPool, MaxLayerFiles) }

\* the layers directory: missing, or holding one rich layer, or several
\* small ones
FsInputs ==
    { [exists |-> FALSE, dirs |-> <<>>] }
    \cup { [exists |-> TRUE, dirs |-> Named(<<d>>)] : d \in RichDirs \cup CacheDirs }
    \cup { [exists |-> TRUE, dirs |-> Named(ds)] :
             ds \in UNION { [1..k -> SmallDirs] : k \in 2..MaxLayers } }

Contexts == [A : BOOLEAN, B : BOOLEAN, N : { <<"a">>, <<"b">> }]

LayerInit ==
    /\ context \in Contexts
    /\ fs \in FsInputs
    /\ lpc = "start" /\ scanned = <<>> /\ built = <<>> /\ layers = <<>>
    /\ ran = 0 /\ output = <<>>

\* gather_package_layers.  os.walk over a missing directory yields nothing,
\* layer_dirs is never bound and the function raises.
GatherPackageLayers ==
    /\ lpc = "start"
    /\ IF ~fs.exists
       THEN /\ lpc' = "UnboundLocalError"
            /\ UNCHANGED <<scanned, built, layers>>
       ELSE LET layer_dirs == LayerDirs(fs.dirs)
                made == [i \in 1..Len(layer_dirs) |->
                            LayerInfo_from_fs(layer_dirs[i], context)]
            IN  /\ lpc' = "gathered"
                /\ scanned' = [i \in 1..Len(layer_dirs) |->
                                  ScannedFiles(layer_dirs[i], context)]
                /\ built' = made
                /\ layers' = KeepNonEmpty(made)
    /\ UNCHANGED <<context, fs, ran, output, bumpVars, releaseVars, fixupVars>>

\* LayerInfo.run on the next of the gathered layers
LayerRun ==
    /\ lpc = "gathered"
    /\ ran < Len(layers)
    /\ ran' = ran + 1
    /\ output' = output \o RunFiles(layers[ran + 1])
    /\ UNCHANGED <<context, fs, lpc, scanned, built, layers, bumpVars, releaseVars,
                   fixupVars>>

(***************************************************************************)
(* _bump_version on its own                                                *)
(***************************************************************************)

MaxVerLen == 4

VersionChars == {"0", "1", "9", ".", "-", "r"}

VersionInputs ==
    SeqsUpTo(VersionChars, MaxVerLen)
    \cup { <<"1", ".", "2", ".", "3">>,
           <<"1", ".", "2", ".", "3", "-", "r", "c", ".", "1">>,
           <<"1", ".", "2", ".", "3", ".", "4">>,
           <<"0", "1", ".", "2", ".", "3">> }

Pending == Raise("pending")

BumpIdle == bver = None /\ blevel = NoLevel /\ bresult = Pending

BumpInit ==
    /\ bver \in VersionInputs
    /\ blevel \in Levels
    /\ bresult = Pending

BumpVersion ==
    /\ bresult = Pending
    /\ bresult' = _bump_version(bver, blevel)
    /\ UNCHANGED <<bver, blevel, releaseVars, layerVars, fixupVars>>


(***************************************************************************)
(* interact.py: _fixup, _get_default, _fixup_context                       *)
(***************************************************************************)

\* a settings value: a str or a bool
VStr(text) == [t |-> "str", s |-> text, b |-> FALSE]

VBool(flag) == [t |-> "bool", s |-> <<>>, b |-> flag]

\* str(value)
ValueText(v) ==
    IF v.t = "str" THEN v.s
    ELSE IF v.b THEN <<"T", "r", "u", "e">> ELSE <<"F", "a", "l", "s", "e">>

\* key in settings
HasKey(st, key) == \E i \in 1..Len(st) : st[i].key = key

\* settings.get(key, default)
GetKey(st, key, default) ==
    IF HasKey(st, key) THEN st[CHOOSE i \in 1..Len(st) : st[i].key = key].value
    ELSE default

\* settings[key] = value: an existing key keeps its place, a new one is last
SetKey(st, key, value) ==
    IF HasKey(st, key)
    THEN [i \in 1..Len(st) |-> IF st[i].key = key THEN [key |-> key, value |-> value]
                               ELSE st[i]]
    ELSE Append(st, [key |-> key, value |-> value])

\* del settings[key], a KeyError being ignored
DelKey(st, key) == SelectSeq(st, LAMBDA kv : kv.key # key)

\* a fixup expression is text with references to settings: its tokens
Lit(c) == [ref |-> <<>>, lit |-> c]

Ref(key) == [ref |-> key, lit |-> ""]

\* ctx._build_fixup(settings, fixup): every reference replaced by the text of
\* the setting's current value, nothing when the setting is missing
RECURSIVE _build_fixup(_, _)
_build_fixup(st, fixup) ==
    IF fixup = <<>> THEN <<>>
    ELSE (IF fixup[1].ref # <<>>
          THEN ValueText(GetKey(st, fixup[1].ref, VStr(<<>>)))
          ELSE <<fixup[1].lit>>)
         \o _build_fixup(st, Tail(fixup))

\* setting.calc_value(settings): a fixed str or bool, a list of choices, or
\* the value of a setting resolved earlier
calc_value(setting, st) ==
    CASE setting.calc.kind = "ref" ->
            [is_list |-> FALSE, value |-> GetKey(st, setting.calc.ref, VStr(<<>>)),
             items |-> <<>>]
      [] setting.calc.kind = "list" ->
            [is_list |-> TRUE, value |-> VStr(<<>>), items |-> setting.calc.items]
      [] OTHER ->
            [is_list |-> FALSE, value |-> setting.calc.value, items |-> <<>>]

\* _get_default
_get_default(setting, st) ==
    LET value == calc_value(setting, st)
    IN  IF value.is_list THEN value.items[1] ELSE value.value

\* a slip: the value is tested for truthiness, so False counts as unset
_fixup_falsy(st, key, fixup, force) ==
    LET value == GetKey(st, key, VStr(<<>>))
    IN  IF value # VStr(<<>>) /\ value # VBool(FALSE) /\ ~force THEN st
        ELSE SetKey(st, key, VStr(_build_fixup(st, fixup)))

\* _fixup
_fixup(st, key, fixup, force) ==
    LET value == GetKey(st, key, VStr(<<>>))
    IN  IF value # VStr(<<>>) /\ ~force THEN st
        ELSE SetKey(st, key, VStr(_build_fixup(st, fixup)))

\* setting.fix or ""
FixOrEmpty(setting) == IF setting.has_fix THEN setting.fix ELSE <<>>

\* _project_filter(project)(setting)
wanted(project, setting) ==
    IF project = NoKey THEN setting.project = NoKey
    ELSE setting.project = NoKey \/ setting.project = project

\* [setting for setting in pool if wanted(setting)]
WantedOf(project, pool) == SelectSeq(pool, LAMBDA setting : wanted(project, setting))

\* the first loop of _fixup_context, one hidden setting
WriteHiddenDefault(st, setting) ==
    LET value == _get_default(setting, st)
    IN  IF value.t = "bool" \/ value # VStr(<<>>)
        THEN SetKey(st, setting.json_key, value)
        ELSE st

\* for coll in [defaults, hidden]: for setting in coll
FixupOrder(in) == WantedOf(in.project, in.defaults) \o WantedOf(in.project, in.hidden)

\* the nested result: top-level entries, each a leaf or a dict of leaves
\* (json_key has at most two steps in these runs)
Leaf(v) == [is_dict |-> FALSE, leaf |-> v, sub |-> <<>>]

SubDict(sub) == [is_dict |-> TRUE, leaf |-> VStr(<<>>), sub |-> sub]

\* one iteration of "for key in settings"
NestKey(result, path, v) ==
    IF Len(path) = 1 THEN SetKey(result, path[1], Leaf(v))
    ELSE LET cur == GetKey(result, path[1], Leaf(v))
             sub == IF HasKey(result, path[1]) /\ cur.is_dict THEN cur.sub ELSE <<>>
         IN  SetKey(result, path[1], SubDict(SetKey(sub, path[2], v)))

RECURSIVE NestFirst(_, _)
NestFirst(st, n) ==
    IF n = 0 THEN <<>>
    ELSE NestKey(NestFirst(st, n - 1), st[n].key, st[n].value)

\* ---- bounds and input sets of the _fixup_context runs
MaxDefaults == 2

MaxHidden == 2

Setting(json_key, project, calc, has_fix, fix, force_fix) ==
    [json_key |-> json_key, project |-> project, calc |-> calc,
     has_fix |-> has_fix, fix |-> fix, force_fix |-> force_fix]

Const(v) == [kind |-> "const", value |-> v, ref |-> <<>>, items |-> <<>>]

Choices(items) == [kind |-> "list", value |-> VStr(<<>>), ref |-> <<>>, items |-> items]

Same(key) == [kind |-> "ref", value |-> VStr(<<>>), ref |-> key, items |-> <<>>]

\* ctx.defaults: the settings that are asked for a value
DefaultPool ==
    { Setting(<<"NAME">>, NoKey, Const(VStr(<<"a", "p", "p">>)), FALSE, <<>>, FALSE),
      Setting(<<"PREFIX">>, NoKey, Const(VStr(<<>>)), TRUE, <<Ref(<<"NAME">>), Lit("-")>>, FALSE),
      Setting(<<"EXT">>, NoKey, Choices(<<VStr(<<"c">>), VStr(<<"x">>)>>), FALSE, <<>>, FALSE),
      Setting(<<"NS">>, "cxx", Const(VStr(<<"n">>)), TRUE, <<Ref(<<"NAME">>)>>, TRUE),
      Setting(<<"TITLE">>, NoKey, Same(<<"NAME">>), TRUE, <<Lit("t")>>, FALSE) }

\* ctx.hidden: the settings that are never asked
HiddenPool ==
    { Setting(<<"EXT", "cxx">>, NoKey, Const(VStr(<<>>)), TRUE, <<Lit("."), Ref(<<"EXT">>)>>, FALSE),
      Setting(<<"FLAG">>, NoKey, Const(VBool(FALSE)), TRUE, <<Lit("x")>>, FALSE),
      Setting(<<"KIND">>, "cxx", Choices(<<VStr(<<"a">>), VStr(<<"b">>)>>), FALSE, <<>>, TRUE),
      Setting(<<"COPY">>, NoKey, Same(<<"NAME">>), TRUE, <<Ref(<<"FLAG">>), Ref(<<"NS">>)>>, FALSE) }

\* ctx.switches: the settings that are asked and answered yes or no
SwitchPool ==
    { Setting(<<"with", "cmake">>, NoKey, Const(VBool(TRUE)), FALSE, <<>>, FALSE),
      Setting(<<"with", "conan">>, "cxx", Const(VBool(FALSE)), FALSE, <<>>, FALSE) }

\* the "defaults" of the configuration file: answers given in advance
NameEmpty == <<[key |-> <<"NAME">>, value |-> VStr(<<>>)]>>

NameAndSwitch ==
    <<[key |-> <<"NAME">>, value |-> VStr(<<"o">>)],
      [key |-> <<"with", "cmake">>, value |-> VBool(FALSE)]>>

ChoiceAndPrefix ==
    <<[key |-> <<"EXT">>, value |-> VStr(<<"x">>)],
      [key |-> <<"PREFIX">>, value |-> VStr(<<"p">>)]>>

\* the loop of _all_default over the settings still to answer
RECURSIVE AnswerAll(_, _, _)
AnswerAll(st, todo, overrides) ==
    IF todo = <<>> THEN st
    ELSE LET key == todo[1].json_key
             value == IF HasKey(overrides, key)
                      THEN GetKey(overrides, key, VStr(<<>>))
                      ELSE _get_default(todo[1], st)
         IN  AnswerAll(SetKey(st, key, value), Tail(todo), overrides)

\* _all_default(wanted, overrides)
_all_default(in) ==
    AnswerAll(<<>>,
              WantedOf(in.project, in.defaults) \o WantedOf(in.project, in.switches),
              in.overrides)

\* ctx.switches in either order
BothSwitches == { q \in DistinctSeqs(SwitchPool, Cardinality(SwitchPool)) :
                    Len(q) = Cardinality(SwitchPool) }

\* where a run takes place: the project asked for, the registered switches
\* and the answers given in advance
Environment(project, switches, overrides) ==
    [project |-> project, switches |-> switches, overrides |-> overrides]

Environments ==
    { Environment(NoKey, <<>>, <<>>),
      Environment("cxx", <<>>, <<>>),
      Environment(NoKey, <<>>, NameEmpty) }
    \cup { Environment("cxx", q, NameEmpty) : q \in BothSwitches }
    \cup { Environment(NoKey, q, NameAndSwitch) : q \in BothSwitches }
    \cup { Environment("cxx", q, ChoiceAndPrefix) : q \in BothSwitches }

FixupInputs ==
    { [project |-> e.project, defaults |-> d, switches |-> e.switches,
       hidden |-> h, overrides |-> e.overrides] :
        e \in Environments,
        d \in DistinctSeqs(DefaultPool, MaxDefaults),
        h \in DistinctSeqs(HiddenPool, MaxHidden) }

\* where _fixup_context stands after i iterations of the loop `loop`
Position(in, loop, i) ==
    IF loop = "hidden" /\ i < Len(WantedOf(in.project, in.hidden)) THEN <<"hidden", i>>
    ELSE IF loop = "hidden" THEN
        (IF FixupOrder(in) = <<>> THEN <<"nest", 0>> ELSE <<"fixup", 0>>)
    ELSE IF i < Len(FixupOrder(in)) THEN <<"fixup", i>>
    ELSE <<"nest", 0>>

FixupIdle ==
    /\ fin = <<>> /\ fpc = "idle" /\ fi = 0 /\ settings = <<>>
    /\ ftrace = <<>> /\ fresult = <<>>

FixupInit ==
    /\ fin \in FixupInputs
    /\ settings = _all_default(fin)
    /\ fpc = Position(fin, "hidden", 0)[1]
    /\ fi = 0 /\ ftrace = <<>> /\ fresult = <<>>

\* for setting in hidden: one iteration
WriteHidden ==
    /\ fpc = "hidden"
    /\ LET setting == WantedOf(fin.project, fin.hidden)[fi + 1]
       IN  /\ settings' = WriteHiddenDefault(settings, setting)
           /\ ftrace' = Append(ftrace, <<"hidden", setting.json_key>>)
    /\ fpc' = Position(fin, "hidden", fi + 1)[1]
    /\ fi' = Position(fin, "hidden", fi + 1)[2]
    /\ UNCHANGED <<fin, fresult, bumpVars, releaseVars, layerVars>>

\* for coll in [defaults, hidden]: for setting in coll: one call of _fixup
Fixup ==
    /\ fpc = "fixup"
    /\ LET setting == FixupOrder(fin)[fi + 1]
       IN  /\ settings' = _fixup(settings, setting.json_key, FixOrEmpty(setting),
                                 setting.force_fix)
           /\ ftrace' = Append(ftrace, <<"fixup", setting.json_key>>)
    /\ fpc' = Position(fin, "fixup", fi + 1)[1]
    /\ fi' = Position(fin, "fixup", fi + 1)[2]
    /\ UNCHANGED <<fin, fresult, bumpVars, releaseVars, layerVars>>

\* del settings["EXT"], then the nesting of the dotted keys
Nest ==
    /\ fpc = "nest"
    /\ settings' = DelKey(settings, <<"EXT">>)
    /\ fresult' = NestFirst(settings', Len(settings'))
    /\ fpc' = "done"
    /\ UNCHANGED <<fin, fi, ftrace, bumpVars, releaseVars, layerVars>>

LayerIdle ==
    /\ context = <<>> /\ fs = <<>> /\ lpc = "idle" /\ scanned = <<>>
    /\ built = <<>> /\ layers = <<>> /\ ran = 0 /\ output = <<>>

\* ---- the release flow
Init == ReleaseInit /\ BumpIdle /\ LayerIdle /\ FixupIdle

Next == AddRelease

Spec == Init /\ [][Next]_vars

\* ---- _bump_version as a function of its arguments
BumpSpecInit == BumpInit /\ ReleaseIdle /\ LayerIdle /\ FixupIdle

BumpNext == BumpVersion

BumpSpec == BumpSpecInit /\ [][BumpNext]_vars

\* ---- gathering and running the layers
LayerSpecInit == LayerInit /\ ReleaseIdle /\ BumpIdle /\ FixupIdle

LayerNext == GatherPackageLayers \/ LayerRun

LayerSpec == LayerSpecInit /\ [][LayerNext]_vars

\* ---- _fixup_context
FixupSpecInit == FixupInit /\ ReleaseIdle /\ BumpIdle /\ LayerIdle

FixupNext == WriteHidden \/ Fixup \/ Nest

FixupSpec == FixupSpecInit /\ [][FixupNext]_vars

(***************************************************************************)
(* Properties of add_release (checked under Spec)                          *)
(***************************************************************************)

Has(cs, op) == \E i \in 1..Len(cs) : cs[i] = op

Count(cs, op) == Cardinality({i \in 1..Len(cs) : cs[i] = op})

Finished == rpc # "start"

\* the calls that write an artifact, stage, commit, tag or publish
WriteOps ==
    {"generator.update_changelog", "suite.set_version", "updater.on_version_change",
     "git.add_files", "git.commit", "git.annotated_tag", "hosting.add_release"}

NothingWritten == \A i \in 1..Len(calls) : calls[i] \notin WriteOps

\* the version file's path as a list of zero or one paths
VersionFilePart ==
    IF rin.version_path \in {NoPath, ""} THEN <<>> ELSE <<rin.version_path>>

\* the paths of the first n updaters, in registry order
RECURSIVE PathsOfFirst(_, _)
PathsOfFirst(us, n) ==
    IF n = 0 THEN <<>> ELSE PathsOfFirst(us, n - 1) \o us[n].paths

\* C1: a dry run that passes validation stages the predicted list of files
\* but never invokes git.commit, git.annotated_tag or hosting.add_release.
C1_DryRunInvokesNothing ==
    (rpc = "done" /\ rin.dry_run) =>
        /\ added = <<ChangelogPath>> \o VersionFilePart
        /\ ~Has(calls, "git.commit")
        /\ ~Has(calls, "git.annotated_tag")
        /\ ~Has(calls, "hosting.add_release")

CandidateTagListed ==
    /\ Finished
    /\ curr_tag # None
    /\ \E i \in 1..Len(rin.tags) : rin.tags[i] = curr_tag

\* C2 as stated: when the candidate tag is among the listed tags the run
\* ends with the fatal "tag already exists" message and nothing is written.
C2_TagExistsIsFatal ==
    CandidateTagListed => (rpc = "fatal" /\ Has(calls, "rt.fatal") /\ NothingWritten)

\* C2 as amended: when the candidate tag is among the listed tags the run
\* fails and nothing is written; it fails with VersionNotAdvancing when the
\* next version equals the current one (that test comes first) and with the
\* fatal "tag already exists" message otherwise.
C2_TagExistsFails ==
    CandidateTagListed =>
        /\ NothingWritten
        /\ added = None /\ tagged = None
        /\ IF curr_tag = <<"v">> \o rin.version
           THEN rpc = "VersionNotAdvancing" /\ ~Has(calls, "rt.fatal")
           ELSE rpc = "fatal" /\ Has(calls, "rt.fatal")

\* the candidate tag is listed but is not the most recent tag, on a real run
C2_Witness ==
    /\ CandidateTagListed
    /\ rpc = "fatal"
    /\ ~rin.dry_run
    /\ Len(rin.tags) = 2 /\ rin.tags[2] # curr_tag
    /\ Len(rin.updaters) > 0

\* C3: with a BENIGN log level and no forced level, every project version
\* makes the run fail with VersionNotAdvancing and nothing is written.
C3_BenignNeverReleases ==
    (Finished /\ rin.version # None /\ rin.forced_level = NoLevel
        /\ rin.log_level = BENIGN) =>
        (rpc = "VersionNotAdvancing" /\ NothingWritten /\ tagged = None)

\* the place of a call in START -> TAGS_LISTED -> LOG_ANALYZED -> VALIDATED
\* -> ARTIFACTS_WRITTEN -> COMMITTED -> TAGGED -> RELEASED
Phase(op) ==
    CASE op = "git.tag_list" -> 1
      [] op = "git.get_log" -> 2
      [] op = "rt.fatal" -> 3
      [] op = "generator.update_changelog" -> 4
      [] op = "suite.set_version" -> 5
      [] op = "suite.get_version_file_path" -> 6
      [] op = "updater.on_version_change" -> 7
      [] op = "git.add_files" -> 8
      [] op = "git.commit" -> 9
      [] op = "git.annotated_tag" -> 10
      [] op = "hosting.add_release" -> 11
      [] op = "rt.message" -> 12

\* C9: the calls are made in the fixed order tag_list, get_log, artifact
\* writes, add_files, commit, annotated_tag, hosting.add_release; no step is
\* repeated (each updater is asked once); the commit precedes the tag, the
\* tag precedes the hosting release; and hosting.add_release is invoked
\* exactly when the tag step was reached and hosting.is_active holds.
C9_CallOrder ==
    /\ \A i, j \in 1..Len(calls) : i < j => Phase(calls[i]) <= Phase(calls[j])
    /\ \A i, j \in 1..Len(calls) :
          (i < j /\ calls[i] = calls[j]) => calls[i] = "updater.on_version_change"
    /\ Count(calls, "updater.on_version_change") \in {0, Len(rin.updaters)}
    /\ Has(calls, "git.annotated_tag") => Has(calls, "git.commit")
    /\ Has(calls, "git.commit") => Has(calls, "git.add_files")
    /\ Has(calls, "git.add_files") => (Has(calls, "git.tag_list") /\ Has(calls, "git.get_log"))
    /\ Has(calls, "hosting.add_release")
          <=> (Has(calls, "git.annotated_tag") /\ rin.hosting_active)

\* a real run with two updaters that reached the hosting release
C9_Witness ==
    /\ rpc = "done" /\ ~rin.dry_run /\ rin.hosting_active
    /\ Len(rin.updaters) = 2
    /\ Len(calls) = 11
    /\ calls[9] = "git.commit" /\ calls[10] = "git.annotated_tag"
    /\ calls[11] = "hosting.add_release"

\* C10: git.add_files receives, on a real run, the changelog path, the
\* version file's path if there is one, and every updater's path(s) in
\* registry order; on a dry run only the first two, and then update_changelog,
\* set_version and on_version_change are never invoked.
C10_FilesToCommit ==
    Has(calls, "git.add_files") =>
        IF rin.dry_run
        THEN /\ added = <<ChangelogPath>> \o VersionFilePart
             /\ ~Has(calls, "generator.update_changelog")
             /\ ~Has(calls, "suite.set_version")
             /\ ~Has(calls, "updater.on_version_change")
        ELSE /\ added = <<ChangelogPath>> \o VersionFilePart
                          \o PathsOfFirst(rin.updaters, Len(rin.updaters))
             /\ Count(calls, "generator.update_changelog") = 1
             /\ Count(calls, "suite.set_version") = 1
             /\ Count(calls, "updater.on_version_change") = Len(rin.updaters)

\* a real run whose updaters return one path and a sequence of paths
C10_Witness ==
    /\ rpc = "done" /\ ~rin.dry_run
    /\ rin.version_path = "CMakeLists.txt"
    /\ Len(rin.updaters) = 2
    /\ rin.updaters[1].is_str /\ ~rin.updaters[2].is_str
    /\ added = <<ChangelogPath, "CMakeLists.txt", "package.json", "conanfile.py", "README.md">>

\* a dry run with registered updaters that reached git.add_files
C10_WitnessDry ==
    /\ rpc = "done" /\ rin.dry_run /\ Len(rin.updaters) = 2
    /\ added = <<ChangelogPath>>

\* the level the claim says is used: the forced one when given
ClaimedLevel == IF rin.forced_level = NoLevel THEN rin.log_level ELSE rin.forced_level

\* _bump_version returns for that level (its index falls inside the version)
ClaimedLevelBumps == ClaimedLevel = BENIGN \/ (BREAKING - ClaimedLevel) \in 0..2

\* the version bumped with the claimed level, written out for the
\* well-formed versions of these runs
ClaimedNext ==
    LET core == IF \E i \in 1..Len(rin.version) : rin.version[i] = "-"
                THEN SubSeq(rin.version, 1, IndexOf(rin.version, "-") - 1)
                ELSE rin.version
        rest == SubSeq(rin.version, Len(core) + 1, Len(rin.version))
        parts == Split(core, ".")
        n(i) == IF i <= Len(parts) THEN ParseInt(parts[i]) ELSE 0
        at == IF ClaimedLevel > BENIGN THEN BREAKING - ClaimedLevel + 1 ELSE 4
        b(i) == IF i < at THEN n(i) ELSE IF i = at THEN n(i) + 1 ELSE 0
    IN  StrOfInt(b(1)) \o <<".">> \o StrOfInt(b(2)) \o <<".">> \o StrOfInt(b(3)) \o rest

\* C11: the next version is computed with the forced level whenever one is
\* given (BENIGN included) and with the log level otherwise; setup.curr_tag,
\* and the name given to git.annotated_tag, is "v" followed by the version
\* bumped with that level.
C11_ForcedLevelWins ==
    (Finished /\ rin.version # None) =>
        IF ClaimedLevelBumps
        THEN /\ curr_tag = <<"v">> \o ClaimedNext
             /\ rpc \in {"done", "fatal", "VersionNotAdvancing"}
             /\ rpc = "done" => (tagged = curr_tag /\ Has(calls, "git.annotated_tag"))
             /\ rpc # "done" => tagged = None
        ELSE rpc = "IndexError" /\ curr_tag = None /\ tagged = None

\* BENIGN is forced over a BREAKING log; the version "1.2" still advances
\* to "1.2.0", so the tag reaches git.annotated_tag
C11_Witness ==
    /\ rpc = "done"
    /\ rin.forced_level = BENIGN /\ rin.log_level = BREAKING
    /\ rin.version = <<"1", ".", "2">>
    /\ tagged = <<"v", "1", ".", "2", ".", "0">>
    /\ curr_tag = tagged

(***************************************************************************)
(* Properties of _bump_version (checked under BumpSpec)                    *)
(***************************************************************************)

\* the text before the first "-" and, when there is a "-", the text after it
Core(ver) ==
    IF \E i \in 1..Len(ver) : ver[i] = "-" THEN SubSeq(ver, 1, IndexOf(ver, "-") - 1)
    ELSE ver

Suffix(ver) ==
    IF \E i \in 1..Len(ver) : ver[i] = "-"
    THEN <<"-">> \o SubSeq(ver, IndexOf(ver, "-") + 1, Len(ver))
    ELSE <<>>

\* the core is dot-separated runs of digits
WellFormed(ver) ==
    \A i \in 1..Len(Split(Core(ver), ".")) : IsInt(Split(Core(ver), ".")[i])

\* component i (0, 1, 2) of the core, 0 when the core has fewer components
Component(ver, i) ==
    IF i + 1 <= Len(Split(Core(ver), ".")) THEN ParseInt(Split(Core(ver), ".")[i + 1])
    ELSE 0

\* component i after a bump at index at (at = 3: no bump)
Bumped(ver, at, i) ==
    IF i < at THEN Component(ver, i)
    ELSE IF i = at THEN Component(ver, i) + 1
    ELSE 0

Reference(ver, level) ==
    LET at == IF level > BENIGN THEN BREAKING - level ELSE 3
    IN  StrOfInt(Bumped(ver, at, 0)) \o <<".">> \o StrOfInt(Bumped(ver, at, 1))
        \o <<".">> \o StrOfInt(Bumped(ver, at, 2)) \o Suffix(ver)

\* C4: for every well-formed version and every level _bump_version returns
\* the reference result (three components, the one at index
\* BREAKING.value - level.value incremented and those to its right zeroed
\* when level > BENIGN, the suffix kept), and that index is 0, 1 or 2.
C4_BumpMatchesReference ==
    (bresult # Pending /\ WellFormed(bver)) =>
        /\ blevel > BENIGN => (BREAKING - blevel) \in 0..2
        /\ bresult = Ok(Reference(bver, blevel))

\* the same, for the levels whose index falls inside the three components
C4_BumpMatchesReferenceInRange ==
    (bresult # Pending /\ WellFormed(bver) /\ (BREAKING - blevel) \in 0..2) =>
        bresult = Ok(Reference(bver, blevel))

\* the four examples of the specification
C4_Examples ==
    /\ _bump_version(<<"1", ".", "2", ".", "3">>, FEATURE)
          = Ok(<<"1", ".", "3", ".", "0">>)
    /\ _bump_version(<<"1", ".", "2", ".", "3">>, BREAKING)
          = Ok(<<"2", ".", "0", ".", "0">>)
    /\ _bump_version(<<"1", ".", "2", ".", "3", "-", "r", "c", ".", "1">>, BENIGN)
          = Ok(<<"1", ".", "2", ".", "3", "-", "r", "c", ".", "1">>)
    /\ _bump_version(<<"1", ".", "2">>, FEATURE) = Ok(<<"1", ".", "3", ".", "0">>)

(***************************************************************************)
(* Properties of the layers (checked under LayerSpec)                      *)
(***************************************************************************)

Gathered == lpc = "gathered"

\* the layer directories from_fs was called for, in discovery order
DescribedDirs == SelectSeq(fs.dirs, LAMBDA d : d.has_json)

\* the "when" the descriptor gives a source file, NoKey when it gives none
WhenOf(dir, src) ==
    IF \E e \in dir.filelist : e.key = src
    THEN (CHOOSE e \in dir.filelist : e.key = src).when
    ELSE NoKey

\* a condition holds when it is absent or its key is true in the context
Holds(key) == key = NoKey \/ context[key]

Retained(layer, src) == \E k \in 1..Len(layer.files) : layer.files[k].src = src

\* the files found in a layer directory: those of its tree that are not below
\* a __pycache__ directory
SrcSet(dir) == {dir.sources[k] : k \in {j \in 1..Len(dir.sources) : ~InPycache(dir.sources[j])}}

\* C5: a file found in the layer directory is retained by from_fs exactly
\* when its own condition and the layer's condition both hold, for every
\* combination of files, files sharing a destination included.
C5_RetainedIffBothHold ==
    Gathered =>
        \A i \in 1..Len(DescribedDirs) :
            \A src \in SrcSet(DescribedDirs[i]) :
                Retained(built[i], src)
                    <=> (Holds(WhenOf(DescribedDirs[i], src))
                         /\ Holds(DescribedDirs[i].when))

\* the descriptor's path override for a source file, None when there is none
PathOf(dir, src) ==
    IF \E e \in dir.filelist : e.key = src
    THEN (CHOOSE e \in dir.filelist : e.key = src).path
    ELSE None

\* a path template with its first n tokens rendered: {{N}} gives context.N
RECURSIVE RenderedPrefix(_, _)
RenderedPrefix(template, n) ==
    IF n = 0 THEN <<>>
    ELSE RenderedPrefix(template, n - 1)
         \o (IF template[n] = "{{N}}" THEN context.N ELSE <<template[n]>>)

\* the file name (after the last separator) is some text that is not only
\* dots, followed by ".mustache"
EndsInMustache(src) ==
    /\ Len(src) > 9
    /\ SubSeq(src, Len(src) - 8, Len(src)) = MustacheExt
    /\ \E k \in 1..(Len(src) - 9) :
          /\ src[k] \notin {"/", "."}
          /\ \A j \in k..(Len(src) - 9) : src[j] # "/"

\* C6: the destination from_json resolves is the rendered path override when
\* the entry has one (whatever the extension); else the source without its
\* ".mustache" suffix when that is its extension; else the source itself.
C6_Destination ==
    Gathered =>
        \A i \in 1..Len(DescribedDirs) :
            /\ Len(scanned[i]) = Cardinality(SrcSet(DescribedDirs[i]))
            /\ \A src \in SrcSet(DescribedDirs[i]) :
                 \E k \in 1..Len(scanned[i]) :
                    /\ scanned[i][k].src = src
                    /\ LET dst == scanned[i][k].dst
                           path == PathOf(DescribedDirs[i], src)
                       IN  IF path # None
                           THEN dst = RenderedPrefix(path, Len(path))
                           ELSE IF EndsInMustache(src)
                           THEN dst \o MustacheExt = src
                           ELSE dst = src

\* one layer holding a template with an override, a template without one and
\* a file named ".mustache"
C6_Witness ==
    /\ Gathered
    /\ Len(scanned) = 1 /\ Len(scanned[1]) = 3
    /\ \E k \in 1..3 : /\ scanned[1][k].src = <<"f">> \o MustacheExt
                       /\ scanned[1][k].dst = <<"f", ".">> \o context.N
    /\ \E k \in 1..3 : /\ scanned[1][k].src = <<"a">> \o MustacheExt
                       /\ scanned[1][k].dst = <<"a">>
    /\ \E k \in 1..3 : /\ scanned[1][k].src = MustacheExt
                       /\ scanned[1][k].dst = MustacheExt

SortedByDst(files) ==
    \A k \in 1..(Len(files) - 1) : ~StrLess(files[k + 1].dst, files[k].dst)

Dsts(files) == [k \in 1..Len(files) |-> files[k].dst]

\* the number of files in the first n gathered layers
RECURSIVE FilesBefore(_)
FilesBefore(n) == IF n = 0 THEN 0 ELSE FilesBefore(n - 1) + Len(layers[n].files)

Orderings(n) ==
    { f \in [1..n -> 1..n] : \A a, b \in 1..n : a # b => f[a] # f[b] }

Reordered(dir, f) == [dir EXCEPT !.sources = [k \in 1..Len(dir.sources) |-> dir.sources[f[k]]]]

\* C7: every layer's file list is in non-decreasing order of destination,
\* before and after the conditional filter; run handles the files in exactly
\* that order; and building the layer again, in whatever order the directory
\* is enumerated, gives the same sequence of destinations.
C7_SortedAndRunInOrder ==
    Gathered =>
        /\ \A i \in 1..Len(built) :
              /\ SortedByDst(scanned[i])
              /\ SortedByDst(built[i].files)
              /\ \A f \in Orderings(Len(DescribedDirs[i].sources)) :
                    Dsts(LayerInfo_from_fs(Reordered(DescribedDirs[i], f), context).files)
                        = Dsts(built[i].files)
        /\ Len(output) = FilesBefore(ran)
        /\ \A j \in 1..ran : \A k \in 1..Len(layers[j].files) :
              output[FilesBefore(j - 1) + k] = <<layers[j].root, layers[j].files[k].dst>>

\* a layer whose directory was enumerated in descending order of
\* destination, with three surviving files, has been run
C7_Witness ==
    /\ Gathered /\ ran = 1
    /\ Len(fs.dirs) = 1 /\ Len(fs.dirs[1].sources) = 3
    /\ Len(output) = 3
    /\ StrLess(output[1][2], output[2][2]) /\ StrLess(output[2][2], output[3][2])
    /\ fs.dirs[1].sources[1] = <<"f">> \o MustacheExt
    /\ fs.dirs[1].sources[3] = <<"a">> \o MustacheExt

\* a layer directory has a file whose conditions all hold
HasSurvivor(dir) ==
    \E src \in SrcSet(dir) : Holds(WhenOf(dir, src)) /\ Holds(dir.when)

ExpectedLayers == SelectSeq(fs.dirs, LAMBDA d : d.has_json /\ HasSurvivor(d))

\* C8: gather_package_layers returns exactly the described layers that have
\* a surviving file, in discovery order: none of them is empty, none with a
\* survivor is left out, and a single layer with every file excluded gives
\* the empty list.
C8_GatheredLayers ==
    Gathered =>
        /\ Len(layers) = Len(ExpectedLayers)
        /\ \A i \in 1..Len(layers) :
              /\ layers[i].root = ExpectedLayers[i].name
              /\ Len(layers[i].files) > 0
              /\ \E j \in 1..Len(built) : built[j] = layers[i]
        /\ \A j \in 1..Len(built) :
              Len(built[j].files) > 0 => \E i \in 1..Len(layers) : layers[i] = built[j]
        /\ (Len(DescribedDirs) = 1 /\ ~HasSurvivor(DescribedDirs[1])) => layers = <<>>

\* two described layers with files: the first loses every file to its
\* conditions and is dropped, the second is returned
C8_Witness ==
    /\ Gathered
    /\ Len(fs.dirs) = 2
    /\ fs.dirs[1].has_json /\ fs.dirs[2].has_json
    /\ Len(fs.dirs[1].sources) > 0
    /\ Len(built) = 2 /\ built[1].files = <<>>
    /\ Len(layers) = 1 /\ layers[1].root = fs.dirs[2].name


(***************************************************************************)
(* Properties of _fixup_context                                            *)
(***************************************************************************)

\* the setting of the run with the given json_key
SettingOf(key) ==
    CHOOSE setting \in DefaultPool \cup HiddenPool : setting.json_key = key

\* the pool entries the project filter lets through, as trace entries
Entries(loop, pool) ==
    LET kept == SelectSeq(pool, LAMBDA setting :
                    setting.project = NoKey \/ setting.project = fin.project)
    IN  [i \in 1..Len(kept) |-> <<loop, kept[i].json_key>>]

\* every hidden default first, then the fixups: defaults before hidden, each
\* pool in declaration order
ExpectedTrace ==
    Entries("hidden", fin.hidden) \o Entries("fixup", fin.defaults)
        \o Entries("fixup", fin.hidden)

IsPrefix(p, q) == Len(p) <= Len(q) /\ SubSeq(q, 1, Len(p)) = p

TraceInOrder ==
    fpc # "idle" =>
        /\ IsPrefix(ftrace, ExpectedTrace)
        /\ fpc \in {"nest", "done"} => ftrace = ExpectedTrace

\* the two maps agree on every key but `key`, order included
SameElsewhere(before, after, key) == DelKey(before, key) = DelKey(after, key)

\* the map after `key` was given `value`
Written(before, after, key, value) ==
    /\ HasKey(after, key)
    /\ GetKey(after, key, VStr(<<>>)) = value
    /\ SameElsewhere(before, after, key)

\* what one step of the third loop does to the settings map
FixupEffect(key) ==
    LET setting == SettingOf(key)
        set == HasKey(settings, key) /\ GetKey(settings, key, VStr(<<>>)) # VStr(<<>>)
    IN  IF set /\ ~setting.force_fix
        THEN settings' = settings
        ELSE Written(settings, settings', key,
                     VStr(_build_fixup(settings, FixOrEmpty(setting))))

\* what one step of the first loop does to the settings map
HiddenEffect(key) ==
    LET value == _get_default(SettingOf(key), settings)
    IN  IF value.t = "bool" \/ (value.t = "str" /\ value.s # <<>>)
        THEN Written(settings, settings', key, value)
        ELSE settings' = settings

StepEffect ==
    ftrace' # ftrace =>
        /\ Len(ftrace') = Len(ftrace) + 1
        /\ SubSeq(ftrace', 1, Len(ftrace)) = ftrace
        /\ LET last == ftrace'[Len(ftrace')]
           IN  IF last[1] = "fixup" THEN FixupEffect(last[2]) ELSE HiddenEffect(last[2])

\* C12: _fixup_context first writes every hidden setting whose calculated
\* default is a boolean or a non-empty string, and only then runs the fixups,
\* over the defaults and then the hidden settings, each in declaration order.
\* A fixup leaves a value that is present and not the empty string as it is
\* (boolean false included) unless force_fix is set; otherwise it replaces the
\* value by the fixup expression built from the settings as they are then.
C12_FixupContext == []TraceInOrder /\ [][StepEffect]_vars

\* a finished run in which FLAG kept its False through its fixup, the forced
\* NS lost its answer to the built expression, and the missing EXT.cxx was
\* filled in
C12_Witness ==
    /\ fpc = "done"
    /\ \E i \in 1..Len(ftrace) : ftrace[i] = <<"fixup", <<"FLAG">>>>
    /\ \E i \in 1..Len(ftrace) : ftrace[i] = <<"fixup", <<"NS">>>>
    /\ \E i \in 1..Len(ftrace) : ftrace[i] = <<"fixup", <<"EXT", "cxx">>>>
    /\ GetKey(settings, <<"FLAG">>, VStr(<<>>)) = VBool(FALSE)
    /\ GetKey(settings, <<"NAME">>, VStr(<<>>)) = VStr(<<"a", "p", "p">>)
    /\ GetKey(settings, <<"NS">>, VStr(<<>>)) = VStr(<<"a", "p", "p">>)
    /\ GetKey(settings, <<"EXT", "cxx">>, VStr(<<>>)) = VStr(<<".">>)

====
